---- MODULE Spec2Model ----
(***************************************************************************)
(* A state-machine model of colite's coordination core:                    *)
(*   - the MPMC channel      (include/colite/sync/channel.hpp)             *)
(*   - the asynchronous mutex (include/colite/sync/mutex.hpp)              *)
(*   - the two yield awaitables (include/colite/task/yield.hpp and         *)
(*     include/colite/coroutine/yield.hpp)                                 *)
(* Every critical section guarded by a std::mutex is one atomic action;    *)
(* whatever the code does between two critical sections is a separate      *)
(* action, so that other threads interleave exactly where the code lets    *)
(* them.  A shared_ptr's strong count is the number of model objects that  *)
(* currently hold a strong reference; a weak_ptr locks iff that count is   *)
(* positive.                                                               *)
(***************************************************************************)
EXTENDS Integers, Sequences, FiniteSets, TLC

\* ------------------------------------------------------------------ bounds
\* Number of values that may be pushed onto the channel in one behaviour.
MaxSends == 2
\* Number of Receiver handles that may be alive at once.
MaxReceivers == 2
\* Number of times one coroutine awaits yield.
MaxYields == 2
\* Number of lock / try_lock calls one task makes.
MaxLocks == 2
\* Callables submitted to the executors of the executor scenario.
MaxSubmits == 4

\* Sender handles (the original is 1, the others are created by copying).
Senders == {1, 2}
\* Coroutines that co_await receiver.receive(exec).
RTasks == {1, 2}
\* Deferred executors (tests::manual_executor): each runs its callables one
\* at a time, in submission order.
Ctx == {"m1", "m2"}

\* The executor a receiver task passes to receive(exec).
rctx(r) == IF r = 1 THEN "m1" ELSE "m2"
\* The executor a sender passes to send(exec, v).
sctx(h) == IF h = 1 THEN "m1" ELSE "m2"

\* No Sender: the wake handler is run by an executor.
NoHost == 0
\* Nobody owns the lock.
NoOwner == 0

\* std::nullopt, as the result of pop_value or of co_await receive(exec).
None == 0

VARIABLES
    \* ---- colite::mpmc::detail::state_t
    data,       \* data_: the queue of buffered values
    waiting,    \* waiting_receivers_: weak references to waiter records
    stateLock,  \* mutex_: the Sender whose thread owns it, or NoOwner
    \* ---- Sender handles and the operation each one is in
    hs,         \* per Sender handle: where its thread is
    stolen,     \* per Sender handle: the waiter list moved out under the lock
    \* ---- Receiver handles
    nRecv,      \* number of live Receiver handles
    \* ---- receiver coroutines and their waiter record
    rs,         \* per task: "ready" | "parked" | "dropped" | "done"
    frame,      \* per task: the wake handler that resumed it is still on the stack
    host,       \* per task: the Sender whose wake loop runs that handler inline,
                \* or NoHost when an executor runs it
    \* ---- executors
    q,          \* per executor: the callables submitted and not yet run
    imm,        \* whether executor "m2" is colite::executor::immediate_executor
    \* ---- bookkeeping
    sent,       \* number of values pushed so far
    last,       \* the operation that made the latest step, and its outcome
    \* ---- colite::sync::mutex
    locked,     \* locked_
    mutLock,    \* mut_: the task whose thread owns it, or NoOwner
    waiters,    \* waiters_: weak references to waiter_t records
    ms,         \* per task: "ready" | "released" (it owns a guard that was
                \*           released) | "parked" | "holding" | "clearing" |
                \*           "waking" | "dropped"
    mstolen,    \* per task: the waiter list moved out by wakeup_waiters
    mq,         \* per executor: the mutex wake handlers not yet run
    mlast,      \* the mutex operation that made the latest step, and its outcome
    mcount,     \* per task: number of lock / try_lock calls made so far
    spare,      \* per task: the second mutex_guard object it owns: "none" |
                \*           "empty" | "other" (it holds another mutex) |
                \*           "alias" (it points to this mutex as well) |
                \*           "assignEmpty" | "assignOther" (the first guard is
                \*           being move-assigned from it)
    value,      \* value_: the object the mutex guards
    written,    \* history: the latest store made through a guard, and by whom
    \* ---- yield
    ys,         \* per task: "ready" | "suspended" | "dropped" |
                \*           "resumed_after_destroy"
    yq,         \* per executor: the resumptions submitted and not yet run
    ycount,     \* per task: number of yields awaited so far
    \* ---- executors on their own
    submitted,  \* the executor each execute call was made on, in call order;
                \* a callable is named by the index of its call
    ran,        \* the callables invoked so far, in order, and who invoked each
    hostq,      \* what the deferred host (folly::ManualExecutor) was handed
    \* ---- observation
    obs,        \* history of the latest push made while a receive was parked
    delivered   \* history: the values handed to receive / try_receive, in order

chanVars == <<data, waiting, stateLock, hs, stolen, nRecv, rs, frame, host, q, imm, sent, last>>

mutexVars == <<locked, mutLock, waiters, ms, mstolen, mq, mlast, mcount, spare, value, written>>

yieldVars == <<ys, yq, ycount>>

execVars == <<submitted, ran, hostq>>
vars == <<chanVars, mutexVars, yieldVars, execVars, obs, delivered>>

\* ------------------------------------------------------------ reference counts
\* The states of a Sender handle in which its ticket_ member still holds a
\* strong reference: everything between construction and the release of the
\* member, which happens in the destructor body only for the last holder
\* (ticket_.reset()) and after the body otherwise.
HoldsSenderTicket ==
    {"idle", "chkT", "chkS", "wakeT", "wakeS", "hopOk", "hopClosed", "dtor"}

\* The states in which send / try_send holds its local receiver_ticket.
HoldsReceiverTicket == {"chkT", "chkS", "wakeT", "wakeS"}

\* Strong count of the sender ticket: the live Sender handles plus the
\* sender_ticket locals of wake handlers that have resumed a coroutine and
\* have not returned yet.
SenderTicketCount ==
    Cardinality({h \in Senders : hs[h] \in HoldsSenderTicket})
      + Cardinality({r \in RTasks : frame[r] = "tick"})

\* Strong count of the receiver ticket: the live Receiver handles plus the
\* receiver_ticket locals of the sends in progress.
ReceiverTicketCount ==
    nRecv + Cardinality({h \in Senders : hs[h] \in HoldsReceiverTicket})

\* state->sender_ticket_.lock() yields a non-null pointer.
SenderTicketLocks == SenderTicketCount > 0

\* Fault injection: send and try_send do not test the receiver ticket.
ReceiverTicketLocksAlways == TRUE

\* state_->receiver_ticket_.lock() yields a non-null pointer.
ReceiverTicketLocks == ReceiverTicketCount > 0

\* ticket_.use_count() == 1 in ~Sender.
IsLastSender == SenderTicketCount = 1

\* Fault injection: the handler uses the waiter without testing that it is alive.
WeakReceiverLocksAlways(r) == TRUE

\* weak_receiver.lock(): the waiter record is owned by the receive awaitable,
\* which lives in the frame of the coroutine suspended on it.
WeakReceiverLocks(r) == rs[r] = "parked"

\* Fault injection: the hop resumes without testing the liveness token.
HopAliveLocksAlways(c) == TRUE

\* alive_.lock() in the hop callable of send's awaitable.
HopAliveLocks(c) == c.alive

\* Fault injection: the waiter list is cleared under the lock and nobody is woken.
ExchangedWaitersLost(w) == <<>>

\* std::exchange(state_->waiting_receivers_, {}): the list handed to
\* wakeup_waiting_receivers.
ExchangedWaiters(w) == w

\* Fault injection: the queue is taken to be empty without looking at it.
QueueEmptyAlways(d) == TRUE

\* data_.empty().
QueueEmpty(d) == d = <<>>

\* Fault injection: pop_value hands out the newest value.
pop_valueNewest(d) == IF d = <<>> THEN None ELSE d[Len(d)]

\* state_t::pop_value: the front of the queue, or nullopt.
pop_value(d) == IF QueueEmpty(d) THEN None ELSE Head(d)

\* Fault injection: pop_value leaves the value it returns in the queue.
pop_restKeep(d) == d

\* The queue after state_t::pop_value.
pop_rest(d) == IF QueueEmpty(d) THEN d ELSE Tail(d)

\* ------------------------------------------------------------------ executors
Callable(k, t) == [k |-> k, t |-> t, alive |-> TRUE]

\* Fault injection: execute hands the callable to the executor twice.
SubmitTwice(qq, c, fn) == [qq EXCEPT ![c] = Append(Append(@, fn), fn)]

\* colite::executor::execute(exec, fn) on a deferred executor.
Submit(qq, c, fn) == [qq EXCEPT ![c] = Append(@, fn)]

\* immediate_executor::execute invokes the callable before it returns; a
\* deferred executor queues it.
IsImmediate(c) == imm /\ c = "m2"

\* The wake loop of Sender h is running a handler inline that has not
\* returned yet.
Hosting(h) == \E r \in RTasks : frame[r] # "none" /\ host[r] = h

\* An executor runs one callable at a time: it is busy while a wake handler
\* it started has not returned.
Busy(c) == \E r \in RTasks : rctx(r) = c /\ frame[r] # "none" /\ host[r] = NoHost

\* The liveness token of a send awaitable dies with the coroutine frame.
KillHop(qq, h) ==
    [c \in Ctx |->
        [i \in 1..Len(qq[c]) |->
            IF qq[c][i].k = "hop" /\ qq[c][i].t = h
            THEN [qq[c][i] EXCEPT !.alive = FALSE]
            ELSE qq[c][i]]]

\* A hop callable of sender h is still queued (each sender coroutine is
\* started again only after its previous hop has left the executor).
HopPending(h) ==
    \E c \in Ctx : \E i \in 1..Len(q[c]) : q[c][i].k = "hop" /\ q[c][i].t = h

\* What the latest step returned to its caller, if it returned anything.
Ev(op, t, res, v) == [op |-> op, t |-> t, res |-> res, v |-> v]

NoEv == Ev("-", 0, "-", 0)

\* ---------------------------------------------------------------------- Init
\* channel<T>(): one Sender, one Receiver, empty queue; the receiver
\* coroutines have been started and are about to await.
\* Fault injection: every wake handler goes to the first executor.
WaiterExecFirst(r) == "m1"

\* receiver->exec_: the executor receive(exec) stored in the waiter record.
WaiterExec(r) == rctx(r)

\* Fault injection: the handler that finds nothing to hand over forgets
\* the waiter.
RequeuedWaitersNone(w, r) == w

\* state->waiting_receivers_.push_back(receiver) in the wake handler.
RequeuedWaiters(w, r) == Append(w, r)

\* Fault injection: the waiter list is copied, not exchanged.
ReplacedWaitersKept(w) == w

\* What std::exchange leaves in waiting_receivers_: the empty list.
ReplacedWaiters(w) == <<>>

\* Fault injection: the critical section that takes the waiter list is
\* still open when the wake loop starts.
OwnerAfterUnlockKept(th) == th

\* The owner of the lock when the wake loop starts, th being the thread that
\* took the waiter list: the scoped lock of the lambda that takes the list
\* is gone when the lambda returns, and ~Sender calls lock.unlock() first.
OwnerAfterUnlock(th) == NoOwner

ChanInit ==
    /\ data = <<>>
    /\ waiting = <<>>
    /\ stateLock = NoOwner
    /\ hs = [h \in Senders |-> IF h = 1 THEN "idle" ELSE "none"]
    /\ stolen = [h \in Senders |-> <<>>]
    /\ nRecv = 1
    /\ rs = [r \in RTasks |-> "ready"]
    /\ frame = [r \in RTasks |-> "none"]
    /\ host = [r \in RTasks |-> NoHost]
    /\ q = [c \in Ctx |-> <<>>]
    /\ sent = 0
    /\ last = NoEv

\* ------------------------------------------------------------- Sender handles
\* Sender(const Sender&): the copy shares the state and the ticket.
CopySender(h, h2) ==
    /\ UNCHANGED <<imm, host, stateLock>>
    /\ hs[h] = "idle"
    /\ hs[h2] = "none"
    /\ hs' = [hs EXCEPT ![h2] = "idle"]
    /\ last' = NoEv
    /\ UNCHANGED <<data, waiting, stolen, nRecv, rs, frame, q, sent>>

\* try_send, up to the test of the receiver ticket.
TrySendBegin(h) ==
    /\ UNCHANGED <<imm, host, stateLock>>
    /\ hs[h] = "idle"
    /\ ~HopPending(h)
    /\ IF ReceiverTicketLocks
       THEN /\ sent < MaxSends
            /\ hs' = [hs EXCEPT ![h] = "chkT"]
            /\ last' = NoEv
       ELSE /\ hs' = hs
            /\ last' = Ev("try_send", h, "Closed", 0)
    /\ UNCHANGED <<data, waiting, stolen, nRecv, rs, frame, q, sent>>

\* Fault injection: await_suspend suspends without handing the hop to exec.
AwaitSuspendSendLost(h, closed) ==
    /\ hs' = [hs EXCEPT ![h] = IF closed THEN "hopClosed" ELSE "hopOk"]
    /\ q' = q
    /\ last' = NoEv

\* await_suspend of send's awaitable: the hop is handed to exec.  A deferred
\* executor queues it; the immediate executor invokes it at once, the
\* liveness token locks and the coroutine is resumed inside await_suspend.
AwaitSuspendSend(h, closed) ==
    IF IsImmediate(sctx(h))
    THEN /\ hs' = [hs EXCEPT ![h] = "idle"]
         /\ q' = q
         /\ last' = Ev("send", h, IF closed THEN "Closed" ELSE "Ok", 0)
    ELSE /\ hs' = [hs EXCEPT ![h] = IF closed THEN "hopClosed" ELSE "hopOk"]
         /\ q' = Submit(q, sctx(h), Callable("hop", h))
         /\ last' = NoEv

\* send(exec, v), up to the test of the receiver ticket; on a closed channel
\* it returns awaitable{exec, true}, whose await_suspend submits the hop.
SendBegin(h) ==
    /\ UNCHANGED <<imm, host, stateLock>>
    /\ hs[h] = "idle"
    /\ ~HopPending(h)
    /\ IF ReceiverTicketLocks
       THEN /\ sent < MaxSends
            /\ hs' = [hs EXCEPT ![h] = "chkS"]
            /\ q' = q
            /\ last' = NoEv
       ELSE AwaitSuspendSend(h, TRUE)
    /\ UNCHANGED <<data, waiting, stolen, nRecv, rs, frame, sent>>

\* push_and_steal_waiting_receivers: one critical section.
PushAndSteal(h) ==
    /\ UNCHANGED <<imm, host>>
    /\ hs[h] \in {"chkT", "chkS"}
    /\ stateLock = NoOwner
    /\ stateLock' = OwnerAfterUnlock(h)
    /\ data' = Append(data, sent + 1)
    /\ sent' = sent + 1
    /\ stolen' = [stolen EXCEPT ![h] = ExchangedWaiters(waiting)]
    /\ waiting' = ReplacedWaiters(waiting)
    /\ hs' = [hs EXCEPT ![h] = IF hs[h] = "chkT" THEN "wakeT" ELSE "wakeS"]
    /\ last' = NoEv
    /\ UNCHANGED <<nRecv, rs, frame, q>>

\* The handler of wakeup_waiting_receivers for waiter r, run by an executor
\* (by = NoHost) or inline by the wake loop of Sender by.  pop_value runs
\* before the branch; the branch that resumes unlocks first and keeps the
\* handler's sender_ticket until the resumed coroutine hands control back,
\* the other branch releases it inside the critical section.
Handler(r, by) ==
    LET maybe_value == pop_value(data)
        sender_ticket == SenderTicketLocks
    IN IF WeakReceiverLocks(r)
       THEN /\ stateLock = NoOwner
            /\ data' = pop_rest(data)
            /\ IF maybe_value # None \/ ~sender_ticket
               THEN /\ rs' = [rs EXCEPT ![r] = "ready"]
                    /\ frame' = [frame EXCEPT ![r] =
                                    IF sender_ticket THEN "tick" ELSE "noTick"]
                    /\ host' = [host EXCEPT ![r] = by]
                    /\ waiting' = waiting
                    /\ last' = Ev("wake", r,
                                  IF maybe_value # None THEN "value" ELSE "closed",
                                  maybe_value)
               ELSE /\ waiting' = RequeuedWaiters(waiting, r)
                    /\ last' = Ev("wake", r, "requeued", 0)
                    /\ UNCHANGED <<rs, frame, host>>
       ELSE /\ last' = Ev("wake", r, "stale", 0)
            /\ UNCHANGED <<data, rs, frame, host, waiting>>

\* One iteration of the loop of wakeup_waiting_receivers: unless the waiter
\* is stale, a handler is handed to the waiter's executor, which queues it or,
\* if it is the immediate executor, runs it before execute returns.
WakeupOne(h) ==
    /\ hs[h] \in {"wakeT", "wakeS", "dwake"}
    /\ stolen[h] # <<>>
    /\ ~Hosting(h)
    /\ UNCHANGED <<imm, stateLock>>
    /\ LET r == Head(stolen[h]) IN
         /\ stolen' = [stolen EXCEPT ![h] = Tail(@)]
         /\ IF WeakReceiverLocks(r)
            THEN IF IsImmediate(WaiterExec(r))
                 THEN /\ Handler(r, h)
                      /\ q' = q
                 ELSE /\ q' = Submit(q, WaiterExec(r), Callable("wake", r))
                      /\ last' = NoEv
                      /\ UNCHANGED <<data, waiting, rs, frame, host>>
            ELSE /\ q' = q
                 /\ last' = NoEv
                 /\ UNCHANGED <<data, waiting, rs, frame, host>>
    /\ UNCHANGED <<hs, nRecv, sent>>

\* The end of try_send: the loop is over, receiver_ticket is released.
TrySendEnd(h) ==
    /\ UNCHANGED <<imm, host, stateLock>>
    /\ hs[h] = "wakeT"
    /\ stolen[h] = <<>>
    /\ ~Hosting(h)
    /\ hs' = [hs EXCEPT ![h] = "idle"]
    /\ last' = Ev("try_send", h, "Ok", 0)
    /\ UNCHANGED <<data, waiting, stolen, nRecv, rs, frame, q, sent>>

\* The end of send: it returns awaitable{exec}, and co_await's await_suspend
\* submits the hop to exec.
SendSuspend(h) ==
    /\ UNCHANGED <<imm, host, stateLock>>
    /\ hs[h] = "wakeS"
    /\ stolen[h] = <<>>
    /\ ~Hosting(h)
    /\ AwaitSuspendSend(h, FALSE)
    /\ UNCHANGED <<data, waiting, stolen, nRecv, rs, frame, sent>>

\* The coroutine suspended in co_await send(...) is destroyed.
DropSendTask(h) ==
    /\ UNCHANGED <<imm, host, stateLock>>
    /\ hs[h] \in {"hopOk", "hopClosed"}
    /\ hs' = [hs EXCEPT ![h] = "idle"]
    /\ q' = KillHop(q, h)
    /\ last' = NoEv
    /\ UNCHANGED <<data, waiting, stolen, nRecv, rs, frame, sent>>

\* ~Sender, the body: under the lock, the last holder resets its ticket and
\* takes the waiter list; any other holder does nothing.
SenderDtorBody(h) ==
    /\ UNCHANGED <<imm, host>>
    /\ hs[h] = "idle"
    /\ stateLock = NoOwner
    /\ IF IsLastSender
       THEN /\ hs' = [hs EXCEPT ![h] = "dwake"]
            /\ stateLock' = OwnerAfterUnlock(h)
            /\ stolen' = [stolen EXCEPT ![h] = ExchangedWaiters(waiting)]
            /\ waiting' = ReplacedWaiters(waiting)
            /\ last' = NoEv
       ELSE /\ hs' = [hs EXCEPT ![h] = "dtor"]
            /\ UNCHANGED <<stolen, waiting, stateLock>>
            /\ last' = NoEv
    /\ UNCHANGED <<data, nRecv, rs, frame, q, sent>>

\* ~Sender, after the body: the members ticket_ and state_ are destroyed.
SenderDtorMembers(h) ==
    /\ UNCHANGED <<imm, host, stateLock>>
    /\ \/ hs[h] = "dtor"
       \/ hs[h] = "dwake" /\ stolen[h] = <<>> /\ ~Hosting(h)
    /\ hs' = [hs EXCEPT ![h] = "dead"]
    /\ last' = NoEv
    /\ UNCHANGED <<data, waiting, stolen, nRecv, rs, frame, q, sent>>

\* Sender::operator=, copy or move, from a Sender of another channel: the
\* defaulted operator replaces state_ and ticket_; the handle leaves this
\* channel without running ~Sender and without taking the state lock.
OverwriteSender(h) ==
    /\ UNCHANGED <<imm, host, stateLock>>
    /\ hs[h] = "idle"
    /\ hs' = [hs EXCEPT ![h] = "dead"]
    /\ last' = Ev("assign", h, "-", 0)
    /\ UNCHANGED <<data, waiting, stolen, nRecv, rs, frame, q, sent>>

\* ----------------------------------------------------------- Receiver handles
CopyReceiver ==
    /\ UNCHANGED <<imm, host, stateLock>>
    /\ nRecv >= 1
    /\ nRecv < MaxReceivers
    /\ nRecv' = nRecv + 1
    /\ last' = NoEv
    /\ UNCHANGED <<data, waiting, hs, stolen, rs, frame, q, sent>>

\* ~Receiver is implicit: the members are destroyed.
DestroyReceiver ==
    /\ UNCHANGED <<imm, host, stateLock>>
    /\ nRecv >= 1
    /\ nRecv' = nRecv - 1
    /\ last' = NoEv
    /\ UNCHANGED <<data, waiting, hs, stolen, rs, frame, q, sent>>

\* Fault injection: available reports the number of values pushed so far.
availablePushed == sent

\* Receiver::available: data_.size() under the state lock; it writes nothing.
available == Len(data)

\* The outcome of try_receive for a queue d.
TryReceiveResult(d) ==
    IF pop_value(d) # None THEN "Value"
    ELSE IF SenderTicketLocks THEN "Empty"
    ELSE "Closed"

\* Receiver::try_receive: one critical section.
TryReceive ==
    /\ UNCHANGED <<imm, host, stateLock>>
    /\ nRecv >= 1
    /\ stateLock = NoOwner
    /\ data' = pop_rest(data)
    /\ last' = Ev("try_receive", 0, TryReceiveResult(data), pop_value(data))
    /\ UNCHANGED <<waiting, hs, stolen, nRecv, rs, frame, q, sent>>

\* ------------------------------------------------------------ receiver tasks
\* co_await receiver.receive(exec): await_suspend, one critical section.
Receive(r) ==
    /\ UNCHANGED <<imm, host, stateLock>>
    /\ rs[r] = "ready"
    /\ nRecv >= 1
    /\ stateLock = NoOwner
    /\ IF QueueEmpty(data)
       THEN IF ~SenderTicketLocks
            THEN /\ last' = Ev("receive", r, "closed", None)
                 /\ UNCHANGED <<rs, waiting, data>>
            ELSE /\ rs' = [rs EXCEPT ![r] = "parked"]
                 /\ waiting' = Append(waiting, r)
                 /\ last' = Ev("receive", r, "parked", None)
                 /\ data' = data
       ELSE /\ data' = Tail(data)
            /\ last' = Ev("receive", r, "value", Head(data))
            /\ UNCHANGED <<rs, waiting>>
    /\ UNCHANGED <<hs, stolen, nRecv, frame, q, sent>>

\* The coroutine runs to its end.
Finish(r) ==
    /\ UNCHANGED <<imm, host, stateLock>>
    /\ rs[r] = "ready"
    /\ rs' = [rs EXCEPT ![r] = "done"]
    /\ last' = NoEv
    /\ UNCHANGED <<data, waiting, hs, stolen, nRecv, frame, q, sent>>

\* detail::task::~task on a suspended coroutine: my_handle_.destroy().
DropTask(r) ==
    /\ UNCHANGED <<imm, host, stateLock>>
    /\ rs[r] = "parked"
    /\ rs' = [rs EXCEPT ![r] = "dropped"]
    /\ last' = NoEv
    /\ UNCHANGED <<data, waiting, hs, stolen, nRecv, frame, q, sent>>

\* ------------------------------------------------------------ executor steps
\* A deferred executor runs the wake handler at the head of its queue.
RunWake(c) ==
    /\ q[c] # <<>>
    /\ Head(q[c]).k = "wake"
    /\ ~Busy(c)
    /\ q' = [q EXCEPT ![c] = Tail(@)]
    /\ Handler(Head(q[c]).t, NoHost)
    /\ UNCHANGED <<hs, stolen, nRecv, sent, imm, stateLock>>

\* The wake handler returns once the coroutine it resumed has suspended again
\* or has finished; its locals (receiver, sender_ticket) are released.
HandlerReturn(r) ==
    /\ frame[r] # "none"
    /\ rs[r] # "ready"
    /\ frame' = [frame EXCEPT ![r] = "none"]
    /\ host' = [host EXCEPT ![r] = NoHost]
    /\ UNCHANGED <<imm, stateLock>>
    /\ last' = NoEv
    /\ UNCHANGED <<data, waiting, hs, stolen, nRecv, rs, q, sent>>

\* The hop callable of send's awaitable, run by the executor.
RunHop(c) ==
    /\ UNCHANGED <<imm, host, stateLock>>
    /\ q[c] # <<>>
    /\ Head(q[c]).k = "hop"
    /\ ~Busy(c)
    /\ q' = [q EXCEPT ![c] = Tail(@)]
    /\ LET h == Head(q[c]).t IN
         IF HopAliveLocks(Head(q[c]))
         THEN /\ hs' = [hs EXCEPT ![h] = "idle"]
              /\ last' = Ev("send", h,
                            IF hs[h] = "hopClosed" THEN "Closed" ELSE "Ok", 0)
         ELSE /\ hs' = hs
              /\ last' = Ev("hop", h, "stale", 0)
    /\ UNCHANGED <<data, waiting, stolen, nRecv, rs, frame, sent>>

ChanNext ==
    \/ \E h, h2 \in Senders : CopySender(h, h2)
    \/ \E h \in Senders : TrySendBegin(h)
    \/ \E h \in Senders : SendBegin(h)
    \/ \E h \in Senders : PushAndSteal(h)
    \/ \E h \in Senders : WakeupOne(h)
    \/ \E h \in Senders : TrySendEnd(h)
    \/ \E h \in Senders : SendSuspend(h)
    \/ \E h \in Senders : DropSendTask(h)
    \/ \E h \in Senders : SenderDtorBody(h)
    \/ \E h \in Senders : SenderDtorMembers(h)
    \/ CopyReceiver
    \/ DestroyReceiver
    \/ TryReceive
    \/ \E r \in RTasks : Receive(r)
    \/ \E r \in RTasks : Finish(r)
    \/ \E r \in RTasks : DropTask(r)
    \/ \E r \in RTasks : HandlerReturn(r)
    \/ \E c \in Ctx : RunWake(c)
    \/ \E c \in Ctx : RunHop(c)

\* ================================================================== mutex
\* colite::sync::mutex<T> with three threads of control; each may try_lock,
\* co_await lock(exec), release the guard it holds, or be destroyed while it
\* is suspended in lock.
MTasks == {1, 2, 3}

\* The executor a task passes to lock(exec).
mctx(t) == IF t = 1 THEN "m1" ELSE "m2"

\* Fault injection: the locked_ flag is not tested before the guard is handed out.
MutexFreeAlways == TRUE

\* !locked_, read under mut_.
MutexFree == ~locked

\* Fault injection: unlock_impl does not look at the guard's mutex_ pointer.
GuardPopulatedAlways(t) == TRUE

\* mutex_ != nullptr in the guard task t owns: set by the constructor that
\* hands out the guard, reset at the end of unlock_impl.
GuardPopulated(t) == ms[t] \in {"holding", "clearing", "waking"}

\* The value the mutex is constructed with, and the values tasks store.
InitialValue == 0
Values == {1, 2}

\* Fault injection: a store through the guard does not reach value_.
StoredValueKept(old, v) == old

\* The content of value_ after an assignment of v through operator*.
StoredValue(old, v) == v

\* Fault injection: the move constructor copies the pointer.
MovedFromAliased == "alias"

\* What std::exchange(rhs.mutex_, nullptr) leaves in the guard moved from.
MovedFrom == "empty"

\* operator= of the first guard of task t has not returned yet.
Assigning(t) == spare[t] \in {"assignEmpty", "assignOther"}

\* Fault injection: the acquirer takes the guard without setting the flag.
AcquiredFlagUnset == FALSE

\* The value try_lock, lock and the wake handler write to locked_.
AcquiredFlag == TRUE

\* Fault injection: a lock that finds the mutex locked suspends without
\* registering its waiter.
ParkedWaitersNone(w, t) == w

\* waiters_.push_back(waiter_).
ParkedWaiters(w, t) == Append(w, t)

\* Fault injection: wakeup_waiters empties the list and wakes nobody.
StolenWaitersLost(w) == <<>>

\* std::exchange(waiters_, {}): the list wakeup_waiters walks through.
StolenWaiters(w) == w

\* Fault injection: unlock_impl leaves the flag set.
ReleasedFlagKept == TRUE

\* The value unlock_impl writes to locked_.
ReleasedFlag == FALSE

\* Fault injection: the handler uses the waiter without testing that it is alive.
WeakWaiterLocksAlways(t) == TRUE

\* weak_waiter.lock() in the handler of wakeup_waiter and in wakeup_waiters:
\* the waiter record is owned by the lock awaitable of the suspended coroutine.
WeakWaiterLocks(t) == ms[t] = "parked"

MutexInit ==
    /\ locked = FALSE
    /\ mutLock = NoOwner
    /\ waiters = <<>>
    /\ ms = [t \in MTasks |-> "ready"]
    /\ mstolen = [t \in MTasks |-> <<>>]
    /\ mq = [c \in Ctx |-> <<>>]
    /\ mlast = NoEv
    /\ mcount = [t \in MTasks |-> 0]
    /\ spare = [t \in MTasks |-> "none"]
    /\ value = InitialValue
    /\ written = [t |-> 0, v |-> InitialValue]

\* mutex::try_lock.
TryLock(t) ==
    /\ ms[t] \in {"ready", "released"}
    /\ ~Assigning(t)
    /\ mcount[t] < MaxLocks
    /\ mutLock = NoOwner
    /\ mcount' = [mcount EXCEPT ![t] = @ + 1]
    /\ UNCHANGED <<spare, value, written, mutLock>>
    /\ IF MutexFree
       THEN /\ locked' = AcquiredFlag
            /\ ms' = [ms EXCEPT ![t] = "holding"]
            /\ mlast' = Ev("try_lock", t, "guard", 0)
       ELSE /\ UNCHANGED <<locked, ms>>
            /\ mlast' = Ev("try_lock", t, "nullopt", 0)
    /\ UNCHANGED <<waiters, mstolen, mq>>

\* co_await mutex.lock(exec): await_suspend, one critical section; when it
\* returns false, await_resume hands out the guard.
Lock(t) ==
    /\ ms[t] \in {"ready", "released"}
    /\ ~Assigning(t)
    /\ mcount[t] < MaxLocks
    /\ mutLock = NoOwner
    /\ mcount' = [mcount EXCEPT ![t] = @ + 1]
    /\ UNCHANGED <<spare, value, written, mutLock>>
    /\ IF MutexFree
       THEN /\ locked' = AcquiredFlag
            /\ ms' = [ms EXCEPT ![t] = "holding"]
            /\ waiters' = waiters
            /\ mlast' = Ev("lock", t, "guard", 0)
       ELSE /\ waiters' = ParkedWaiters(waiters, t)
            /\ ms' = [ms EXCEPT ![t] = "parked"]
            /\ locked' = locked
            /\ mlast' = Ev("lock", t, "parked", 0)
    /\ UNCHANGED <<mstolen, mq>>

\* mutex_guard::unlock_impl, called by unlock() or by ~mutex_guard, up to
\* the end of its first critical section: on a populated guard locked_ is
\* cleared; on a released guard the body is skipped, and the guard object
\* stays (unlock()) or is gone (destructor).
UnlockClear(t) ==
    /\ UNCHANGED <<spare, mcount, value, written, mutLock>>
    /\ ms[t] \in {"holding", "released"}
    /\ ~Assigning(t)
    /\ IF GuardPopulated(t)
       THEN /\ mutLock = NoOwner
            /\ locked' = ReleasedFlag
            /\ ms' = [ms EXCEPT ![t] = "clearing"]
            /\ mlast' = NoEv
       ELSE /\ locked' = locked
            /\ \E destroyed \in BOOLEAN :
                  /\ ms' = [ms EXCEPT ![t] = IF destroyed THEN "ready" ELSE "released"]
                  /\ mlast' = Ev("unlock", t, IF destroyed THEN "noop_dtor" ELSE "noop", 0)
    /\ UNCHANGED <<waiters, mstolen, mq>>

\* mutex::wakeup_waiters, second critical section: the waiter list is taken.
UnlockSteal(t) ==
    /\ UNCHANGED <<spare, mcount, value, written>>
    /\ ms[t] = "clearing"
    /\ mutLock = NoOwner
    /\ mutLock' = OwnerAfterUnlock(t)
    /\ mstolen' = [mstolen EXCEPT ![t] = StolenWaiters(waiters)]
    /\ waiters' = <<>>
    /\ ms' = [ms EXCEPT ![t] = "waking"]
    /\ mlast' = NoEv
    /\ UNCHANGED <<locked, mq>>

\* The handler of wakeup_waiter for waiter w: unless the waiter is stale it
\* takes mut_ and either grants the mutex, unlocking before it resumes the
\* coroutine, or puts the waiter back.
MutexHandler(w) ==
    IF WeakWaiterLocks(w)
    THEN /\ mutLock = NoOwner
         /\ IF MutexFree
            THEN /\ locked' = AcquiredFlag
                 /\ ms' = [ms EXCEPT ![w] = "holding"]
                 /\ waiters' = waiters
                 /\ mlast' = Ev("mwake", w, "guard", 0)
            ELSE /\ waiters' = ParkedWaiters(waiters, w)
                 /\ mlast' = Ev("mwake", w, "requeued", 0)
                 /\ UNCHANGED <<locked, ms>>
    ELSE /\ mlast' = Ev("mwake", w, "stale", 0)
         /\ UNCHANGED <<locked, ms, waiters>>

\* One iteration of the loop of wakeup_waiters: unless the waiter is stale,
\* wakeup_waiter hands the handler to the waiter's executor, which queues it
\* or, if it is the immediate executor, runs it before execute returns.
WakeupWaiter(t) ==
    /\ UNCHANGED <<spare, mcount, value, written, mutLock>>
    /\ ms[t] = "waking"
    /\ mstolen[t] # <<>>
    /\ mstolen' = [mstolen EXCEPT ![t] = Tail(@)]
    /\ LET w == Head(mstolen[t]) IN
         IF WeakWaiterLocks(w)
         THEN IF IsImmediate(mctx(w))
              THEN /\ MutexHandler(w)
                   /\ mq' = mq
              ELSE /\ mq' = Submit(mq, mctx(w), Callable("mwake", w))
                   /\ mlast' = NoEv
                   /\ UNCHANGED <<locked, waiters, ms>>
         ELSE /\ mq' = mq
              /\ mlast' = NoEv
              /\ UNCHANGED <<locked, waiters, ms>>

\* The end of unlock_impl: mutex_ = nullptr, the guard is empty.
UnlockEnd(t) ==
    /\ UNCHANGED <<spare, mcount, value, written, mutLock>>
    /\ ms[t] = "waking"
    /\ mstolen[t] = <<>>
    /\ ms' = [ms EXCEPT ![t] = "released"]
    /\ mlast' = Ev("unlock", t, "-", 0)
    /\ UNCHANGED <<locked, waiters, mstolen, mq>>

\* The coroutine suspended in co_await lock(exec) is destroyed.
DropLockTask(t) ==
    /\ UNCHANGED <<spare, mcount, value, written, mutLock>>
    /\ ms[t] = "parked"
    /\ ms' = [ms EXCEPT ![t] = "dropped"]
    /\ mlast' = NoEv
    /\ UNCHANGED <<locked, waiters, mstolen, mq>>

\* A deferred executor runs the handler at the head of its queue.
RunMutexWake(c) ==
    /\ UNCHANGED <<spare, mcount, value, written, mutLock>>
    /\ mq[c] # <<>>
    /\ mq' = [mq EXCEPT ![c] = Tail(@)]
    /\ MutexHandler(Head(mq[c]).t)
    /\ UNCHANGED mstolen

\* *guard = v, or guard->member = v, by the task that holds a populated guard:
\* operator* and operator-> return mutex_->value_.
GuardWrite(t, v) ==
    /\ ms[t] = "holding"
    /\ GuardPopulated(t)
    /\ value' = StoredValue(value, v)
    /\ written' = [t |-> t, v |-> v]
    /\ mlast' = Ev("write", t, "-", v)
    /\ UNCHANGED <<spare, locked, mutLock, waiters, ms, mstolen, mq, mcount>>

\* A read of *guard by the task that holds a populated guard.
GuardRead(t) ==
    /\ ms[t] = "holding"
    /\ GuardPopulated(t)
    /\ mlast' = Ev("read", t, "-", value)
    /\ UNCHANGED <<spare, locked, mutLock, waiters, ms, mstolen, mq, mcount, value, written>>

\* ----------------------------------------------------------- moving a guard
\* mutex_guard b(std::move(a)), a being the populated guard of task t: b
\* takes the pointer, a keeps what std::exchange leaves in it.
MoveConstruct(t) ==
    /\ ms[t] = "holding"
    /\ spare[t] = "none"
    /\ spare' = [spare EXCEPT ![t] = MovedFrom]
    /\ mlast' = Ev("move_construct", t, "-", 0)
    /\ UNCHANGED <<locked, mutLock, waiters, ms, mstolen, mq, mcount, value, written>>

\* Task t obtains a guard of another mutex, or destroys it.
OtherGuard(t) ==
    /\ spare[t] \in {"none", "other"}
    /\ spare' = [spare EXCEPT ![t] = IF @ = "none" THEN "other" ELSE "none"]
    /\ mlast' = NoEv
    /\ UNCHANGED <<locked, mutLock, waiters, ms, mstolen, mq, mcount, value, written>>

\* unlock() on the second guard of task t, or its destructor: unlock_impl
\* does nothing on an empty guard; on a guard that points to this mutex it
\* clears the flag.
SpareRelease(t) ==
    /\ spare[t] \in {"empty", "alias"}
    /\ mutLock = NoOwner
    /\ locked' = IF spare[t] = "alias" THEN ReleasedFlag ELSE locked
    /\ \E destroyed \in BOOLEAN :
          /\ spare' = [spare EXCEPT ![t] = IF destroyed THEN "none" ELSE "empty"]
          /\ mlast' = Ev("release_source", t,
                         IF destroyed THEN "noop_dtor" ELSE "noop", 0)
    /\ UNCHANGED <<mutLock, waiters, ms, mstolen, mq, mcount, value, written>>

\* a = std::move(b), a being the populated guard of task t and b its second
\* guard: operator= first calls unlock_impl on a, whose first critical
\* section clears the flag; wakeup_waiters follows as in any release.
MoveAssignBegin(t) ==
    /\ ms[t] = "holding"
    /\ spare[t] \in {"empty", "other"}
    /\ mutLock = NoOwner
    /\ locked' = ReleasedFlag
    /\ ms' = [ms EXCEPT ![t] = "clearing"]
    /\ spare' = [spare EXCEPT ![t] = IF @ = "empty" THEN "assignEmpty" ELSE "assignOther"]
    /\ mlast' = NoEv
    /\ UNCHANGED <<mutLock, waiters, mstolen, mq, mcount, value, written>>

\* The end of operator=: mutex_ = std::exchange(rhs.mutex_, nullptr).  One of
\* the two guards of t is empty afterwards, the other holds what b held.
MoveAssignEnd(t) ==
    /\ Assigning(t)
    /\ ms[t] = "released"
    /\ spare' = [spare EXCEPT ![t] = IF @ = "assignEmpty" THEN "empty" ELSE "other"]
    /\ mlast' = Ev("move_assign", t, IF spare[t] = "assignEmpty" THEN "empty" ELSE "other", 0)
    /\ UNCHANGED <<locked, mutLock, waiters, ms, mstolen, mq, mcount, value, written>>

\* b = std::move(a), b being the empty second guard of task t and a its
\* populated guard: unlock_impl does nothing on b, the pointer moves over.
MoveAssignOntoEmpty(t) ==
    /\ ms[t] = "holding"
    /\ spare[t] = "empty"
    /\ spare' = [spare EXCEPT ![t] = MovedFrom]
    /\ mlast' = Ev("move_assign", t, "onto_empty", 0)
    /\ UNCHANGED <<locked, mutLock, waiters, ms, mstolen, mq, mcount, value, written>>

MutexNext ==
    \/ \E t \in MTasks : TryLock(t)
    \/ \E t \in MTasks : Lock(t)
    \/ \E t \in MTasks : UnlockClear(t)
    \/ \E t \in MTasks : UnlockSteal(t)
    \/ \E t \in MTasks : WakeupWaiter(t)
    \/ \E t \in MTasks : UnlockEnd(t)
    \/ \E t \in MTasks : DropLockTask(t)
    \/ \E c \in Ctx : RunMutexWake(c)

\* The mutex operations together with the holders' accesses to the value.
MutexValueNext ==
    \/ MutexNext
    \/ \E t \in MTasks, v \in Values : GuardWrite(t, v)
    \/ \E t \in MTasks : GuardRead(t)

\* ================================================================== yield
\* Coroutines that co_await one of the two yield awaitables.
YTasks == {1, 2}

\* The two implementations: colite::task::yield and colite::coroutine::yield.
YieldImpls == {"task", "coroutine"}

\* Whether the callable submitted by await_suspend may call
\* to_suspend.resume(): task::yield locks weak_alive_check_ first,
\* coroutine::yield captures the handle alone and resumes unconditionally.
YieldResumes(fn) == IF fn.k = "task" THEN fn.alive ELSE TRUE

\* alive_check_ of a task::yield awaitable dies with the coroutine frame.
KillYield(qq, y) ==
    [c \in Ctx |->
        [i \in 1..Len(qq[c]) |->
            IF qq[c][i].t = y THEN [qq[c][i] EXCEPT !.alive = FALSE]
            ELSE qq[c][i]]]

YieldInit ==
    /\ ys = [y \in YTasks |-> "ready"]
    /\ yq = [c \in Ctx |-> <<>>]
    /\ ycount = [y \in YTasks |-> 0]

\* co_await yield(exec): await_ready is false, await_suspend submits the
\* resumption to exec.
Yield(y, impl, c) ==
    /\ ys[y] = "ready"
    /\ ycount[y] < MaxYields
    /\ ys' = [ys EXCEPT ![y] = "suspended"]
    /\ yq' = Submit(yq, c, [k |-> impl, t |-> y, alive |-> TRUE])
    /\ ycount' = [ycount EXCEPT ![y] = @ + 1]

\* The suspended coroutine is destroyed before its resumption runs.
DropYieldTask(y) ==
    /\ ys[y] = "suspended"
    /\ ys' = [ys EXCEPT ![y] = "dropped"]
    /\ yq' = KillYield(yq, y)
    /\ ycount' = ycount

\* The executor runs the submitted callable.  Resuming the handle of a
\* destroyed coroutine is undefined behaviour; the model records that the
\* resumption token was invoked on it.
RunYield(c) ==
    /\ yq[c] # <<>>
    /\ yq' = [yq EXCEPT ![c] = Tail(@)]
    /\ LET fn == Head(yq[c]) IN
         IF YieldResumes(fn)
         THEN ys' = [ys EXCEPT ![fn.t] =
                        IF ys[fn.t] = "suspended" THEN "ready"
                        ELSE "resumed_after_destroy"]
         ELSE ys' = ys
    /\ ycount' = ycount

YieldNext ==
    \/ \E y \in YTasks, impl \in YieldImpls, c \in Ctx : Yield(y, impl, c)
    \/ \E y \in YTasks : DropYieldTask(y)
    \/ \E c \in Ctx : RunYield(c)

\* ============================================================== executors
\* colite::executor::execute on an immediate_executor and on two adapted
\* executors: one whose host function calls fn() itself, one whose host
\* function adds fn to a folly::ManualExecutor that is driven later.
ExecKinds == {"immediate", "adapt_inline", "adapt_deferred"}

\* Fault injection: the immediate executor drops the callable.
InvokedNever(log, id, by) == log

\* std::invoke(f): the callable runs now, on the stack of the caller.
Invoked(log, id, by) == Append(log, [id |-> id, by |-> by])

\* Fault injection: the adapted executor hands the callable over twice.
ForwardedTwice(hq, id) == Append(Append(hq, id), id)

\* fn_(std::forward<F>(f)) with the host function folly_exec.add(std::move(fn)).
Forwarded(hq, id) == Append(hq, id)

\* any_executor objects: one constructed from each concrete executor, and a
\* copy of each of them.
AnyKinds ==
    {"any_immediate", "any_adapt_inline", "any_adapt_deferred",
     "anycopy_immediate", "anycopy_adapt_inline", "anycopy_adapt_deferred"}

\* The concrete executor an any_executor was constructed from, or the one
\* the any_executor it was copied from was constructed from.
Wraps(k) ==
    IF k \in {"any_immediate", "anycopy_immediate"} THEN "immediate"
    ELSE IF k \in {"any_adapt_inline", "anycopy_adapt_inline"} THEN "adapt_inline"
    ELSE IF k \in {"any_adapt_deferred", "anycopy_adapt_deferred"} THEN "adapt_deferred"
    ELSE k

\* Fault injection: a copied any_executor holds an immediate executor.
cloneImmediate(x) == "immediate"

\* type_erased_executor::clone: a new type_erased_executor holding a copy
\* of exec_; the copy of an adapted executor calls the same host.
clone(x) == x

\* impl_->exec_ of an any_executor.
Impl(k) ==
    IF k \in {"anycopy_immediate", "anycopy_adapt_inline", "anycopy_adapt_deferred"}
    THEN clone(Wraps(k))
    ELSE Wraps(k)

ExecInit ==
    /\ submitted = <<>>
    /\ ran = <<>>
    /\ hostq = <<>>

\* execute(immediate_executor, f).
ExecuteImmediate ==
    /\ Len(submitted) < MaxSubmits
    /\ submitted' = Append(submitted, "immediate")
    /\ ran' = Invoked(ran, Len(submitted) + 1, "immediate")
    /\ hostq' = hostq

\* execute(adapt(host), f): adapted_exec_t::execute calls the host function
\* with the callable, and nothing else.
ExecuteAdapted(kind) ==
    /\ Len(submitted) < MaxSubmits
    /\ submitted' = Append(submitted, kind)
    /\ IF kind = "adapt_inline"
       THEN /\ ran' = Invoked(ran, Len(submitted) + 1, "host")
            /\ hostq' = hostq
       ELSE /\ hostq' = Forwarded(hostq, Len(submitted) + 1)
            /\ ran' = ran

\* execute(any_executor, f): impl_->invoke wraps f in a std::function and
\* calls execute(exec_, func) on the executor it holds.
ExecuteAny(k) ==
    /\ Len(submitted) < MaxSubmits
    /\ submitted' = Append(submitted, k)
    /\ LET id == Len(submitted) + 1 IN
         IF Impl(k) = "immediate"
         THEN /\ ran' = Invoked(ran, id, "immediate")
              /\ hostq' = hostq
         ELSE IF Impl(k) = "adapt_inline"
         THEN /\ ran' = Invoked(ran, id, "host")
              /\ hostq' = hostq
         ELSE /\ hostq' = Forwarded(hostq, id)
              /\ ran' = ran

\* folly::ManualExecutor::run, one callable of it.
HostRun ==
    /\ hostq # <<>>
    /\ ran' = Invoked(ran, Head(hostq), "host")
    /\ hostq' = Tail(hostq)
    /\ submitted' = submitted

ExecNext ==
    \/ ExecuteImmediate
    \/ \E kind \in ExecKinds \ {"immediate"} : ExecuteAdapted(kind)
    \/ \E k \in AnyKinds : ExecuteAny(k)
    \/ HostRun

\* ===================================================== specifications
\* The channel alone.
Init ==
    /\ ChanInit /\ MutexInit /\ YieldInit /\ ExecInit
    /\ imm = FALSE
    /\ obs = "none" /\ delivered = <<>>
Next == ChanNext /\ UNCHANGED <<mutexVars, yieldVars, execVars, obs, delivered>>
Spec == Init /\ [][Next]_vars

\* The channel, with history variables.  obs is "pending" from a push made
\* while a live receive was suspended until a wake handler hands a value to a
\* suspended receive, "observed" from then on; delivered grows by the value a
\* step hands to its caller or to the coroutine it resumes.
ObsStep ==
    obs' = IF Len(data') > Len(data) /\ \E r \in RTasks : rs[r] = "parked"
             THEN "pending"
           ELSE IF last'.op = "wake" /\ last'.res = "value" /\ obs = "pending"
             THEN "observed"
           ELSE obs
DeliverStep ==
    delivered' = IF last'.res \in {"Value", "value"}
                 THEN Append(delivered, last'.v)
                 ELSE delivered
NextObs == ChanNext /\ ObsStep /\ DeliverStep /\ UNCHANGED <<mutexVars, yieldVars, execVars>>
SpecObs == Init /\ [][NextObs]_vars

\* The channel when executor "m2" is the immediate executor: the second
\* receiver task is woken inside the wake loop of the Sender that finds it,
\* and the second Sender's send resumes inside await_suspend.
InitImm ==
    /\ ChanInit /\ MutexInit /\ YieldInit /\ ExecInit
    /\ imm = TRUE
    /\ obs = "none" /\ delivered = <<>>
SpecImm == InitImm /\ [][NextObs]_vars

\* The channel, with Sender handles that are assigned to.
NextAssign ==
    /\ ChanNext \/ \E h \in Senders : OverwriteSender(h)
    /\ UNCHANGED <<mutexVars, yieldVars, execVars, obs, delivered>>
SpecAssign == Init /\ [][NextAssign]_vars

\* The channel or the mutex, each from its initial state, when executor
\* "m2" is the immediate executor: wake handlers of waiters on "m2" run
\* inside the wake loop that finds them.
NextLocks ==
    \/ MutexInit /\ NextObs
    \/ ChanInit /\ MutexNext /\ UNCHANGED <<chanVars, yieldVars, execVars, obs, delivered>>
SpecLocks == InitImm /\ [][NextLocks]_vars

\* The mutex alone.
MutexStutter == UNCHANGED <<chanVars, yieldVars, execVars, obs, delivered>>
NextMutex == MutexNext /\ MutexStutter
SpecMutex == Init /\ [][NextMutex]_vars

\* The mutex, with guards that are moved; Movers are the tasks that own a
\* second guard object.
Movers == {1}
MutexMoveNext ==
    \/ MutexNext
    \/ \E t \in Movers : MoveConstruct(t)
    \/ \E t \in Movers : OtherGuard(t)
    \/ \E t \in Movers : SpareRelease(t)
    \/ \E t \in Movers : MoveAssignBegin(t)
    \/ \E t \in Movers : MoveAssignEnd(t)
    \/ \E t \in Movers : MoveAssignOntoEmpty(t)
NextMutexMove == MutexMoveNext /\ MutexStutter
SpecMutexMove == Init /\ [][NextMutexMove]_vars

\* The mutex and the value it guards.
NextMutexValue == MutexValueNext /\ MutexStutter
SpecMutexValue == Init /\ [][NextMutexValue]_vars

\* The mutex, when every executor eventually runs what was submitted to it,
\* unlock_impl runs to its end once entered, and every holder eventually
\* releases its guard.
MutexFairness ==
    /\ \A c \in Ctx : WF_vars(RunMutexWake(c) /\ MutexStutter)
    /\ \A t \in MTasks :
          /\ WF_vars(UnlockClear(t) /\ MutexStutter)
          /\ WF_vars(UnlockSteal(t) /\ MutexStutter)
          /\ WF_vars(WakeupWaiter(t) /\ MutexStutter)
          /\ WF_vars(UnlockEnd(t) /\ MutexStutter)
SpecMutexLive == Init /\ [][NextMutex]_vars /\ MutexFairness

\* The yield awaitables alone.
NextYield == YieldNext /\ UNCHANGED <<chanVars, mutexVars, execVars, obs, delivered>>
SpecYield == Init /\ [][NextYield]_vars

\* The executors alone.
NextExec == ExecNext /\ UNCHANGED <<chanVars, mutexVars, yieldVars, obs, delivered>>
SpecExec == Init /\ [][NextExec]_vars

\* ============================================================== properties
\* No callable is pending on any executor, no send, try_send or destructor
\* is in progress and no wake handler is on the stack.
QuiescentChan ==
    /\ \A c \in Ctx : q[c] = <<>>
    /\ \A h \in Senders : hs[h] \in {"none", "idle", "dead"}
    /\ \A r \in RTasks : frame[r] = "none"

\* Every Sender handle has been destroyed.
NoSenderLeft == \A h \in Senders : hs[h] \in {"none", "dead"}

\* A Sender handle exists whose destruction is not complete.
SomeSenderLive == \E h \in Senders : hs[h] \in HoldsSenderTicket

\* The step runs the callable at the head of executor c.
Runs(c) == q[c] # <<>> /\ q'[c] = Tail(q[c])

\* C1: once the last Sender has been destroyed and the executors have run
\* everything submitted to them, no receive of a live task is still
\* suspended.
C1_NoReceiveParkedAfterClose ==
    (QuiescentChan /\ NoSenderLeft) => \A r \in RTasks : rs[r] # "parked"

\* C2, as stated: after a push made while a live receive was suspended, and
\* with no task dropped, the executors do not come to rest before some
\* suspended receive has been handed a value.
C2_SuspendedReceiveObservesValue ==
    (QuiescentChan /\ \A r \in RTasks : rs[r] # "dropped") => obs # "pending"

\* C2, amended: once the executors have run everything submitted to them, no
\* value is left in the queue while a live receive is suspended.
C2_NoValueLeftWithParkedReceive ==
    (QuiescentChan /\ data # <<>>) => \A r \in RTasks : rs[r] # "parked"

C2_Witness ==
    QuiescentChan /\ data # <<>> /\ obs = "observed"

\* C3: at most one task holds a populated guard, the flag is set while one
\* does, and a guard is handed out only when no other task holds one.
C3_AtMostOneHolder ==
    /\ Cardinality({t \in MTasks : ms[t] = "holding"}) <= 1
    /\ (\E t \in MTasks : ms[t] = "holding") => locked

C3_GrantOnlyAfterRelease ==
    \A t \in MTasks :
        (ms[t] # "holding" /\ ms'[t] = "holding")
            => (~locked /\ \A u \in MTasks : ms[u] # "holding")

C3_MutualExclusion == []C3_AtMostOneHolder /\ [][C3_GrantOnlyAfterRelease]_vars

\* A second task holds the guard, handed to it by a wake handler after the
\* first holder released it.
C3_Witness ==
    /\ mlast.op = "mwake" /\ mlast.res = "guard"
    /\ \E t \in MTasks : ms[t] = "holding"
    /\ \E t \in MTasks : ms[t] = "waking"

\* C4: a wake handler whose receiver task was destroyed before it runs
\* resumes nothing and pops nothing: queue, waiter list and tasks are as
\* before.
C4_StaleWakeStep ==
    \A c \in Ctx :
        (Runs(c) /\ Head(q[c]).k = "wake" /\ rs[Head(q[c]).t] = "dropped")
            => (data' = data /\ waiting' = waiting /\ rs' = rs /\ frame' = frame)

C4_StaleWakeDoesNothing == [][C4_StaleWakeStep]_vars

C4_Witness ==
    /\ last.op = "wake" /\ last.res = "stale"
    /\ rs[last.t] = "dropped"
    /\ data # <<>>

\* C5: a task destroyed while suspended in lock is never resumed, a wake
\* handler for it changes neither the flag nor the waiter list, and when no
\* guard is held or being released the mutex is unlocked with an empty
\* waiter list.
C5_StaleWaiterStep ==
    /\ \A t \in MTasks : ms[t] = "dropped" => ms'[t] = "dropped"
    /\ \A c \in Ctx :
          (mq[c] # <<>> /\ mq'[c] = Tail(mq[c]) /\ ms[Head(mq[c]).t] = "dropped")
              => (locked' = locked /\ waiters' = waiters /\ ms' = ms)

C5_UnlockedWhenReleased ==
    (\A t \in MTasks : ms[t] \notin {"holding", "clearing"})
        => (~locked /\ waiters = <<>>)

C5_StaleWaiterIgnored == []C5_UnlockedWhenReleased /\ [][C5_StaleWaiterStep]_vars

\* The guard was released while its only waiter was stale: the wake handler
\* found the task destroyed, the mutex is free and nobody waits.
C5_Witness ==
    /\ mlast.op = "mwake" /\ mlast.res = "stale"
    /\ ms[mlast.t] = "dropped"
    /\ ~locked /\ waiters = <<>>
    /\ \A t \in MTasks : ms[t] \in {"ready", "released", "dropped"}

\* C6: no callable submitted by a yield awaitable invokes the resumption
\* token of a coroutine that was destroyed before the callable ran.
C6_NoResumeAfterDestroy ==
    \A y \in YTasks : ys[y] # "resumed_after_destroy"

\* C7: the hop callable of a send whose task was destroyed is run by the
\* executor, resumes nobody and leaves the queue as it is.
C7_DeadHopStep ==
    \A c \in Ctx :
        (Runs(c) /\ Head(q[c]).k = "hop" /\ ~Head(q[c]).alive)
            => (hs' = hs /\ data' = data /\ last'.op # "send")

C7_DeadHopResumesNothing == [][C7_DeadHopStep]_vars

C7_Witness ==
    /\ last.op = "hop" /\ last.res = "stale"
    /\ data # <<>>

\* C8: try_receive returns the oldest value and removes it when the queue is
\* non-empty, otherwise Empty if a Sender is live and Closed if none is, and
\* then changes neither the queue nor the waiter list.
C8_TryReceiveStep ==
    last'.op = "try_receive" =>
        IF data # <<>>
        THEN last'.res = "Value" /\ last'.v = Head(data) /\ data' = Tail(data)
        ELSE /\ last'.res = IF SomeSenderLive THEN "Empty" ELSE "Closed"
             /\ data' = data
             /\ waiting' = waiting

C8_TryReceiveOutcome == [][C8_TryReceiveStep]_vars

C9_AppendStep ==
    /\ \A h \in Senders :
          (hs[h] = "idle" /\ hs'[h] \in {"chkT", "chkS"})
              => ReceiverTicketCount >= 1
    /\ data' # data /\ Len(data') >= Len(data)
          => \E h \in Senders :
                /\ hs[h] \in {"chkT", "chkS"}
                /\ hs'[h] \in {"wakeT", "wakeS"}
                /\ data' = Append(data, sent')
    /\ \A h \in Senders :
          \/ hs[h] = "idle" /\ hs'[h] = "hopClosed"
          \/ last'.op = "try_send" /\ last'.res = "Closed" /\ last'.t = h
          => (ReceiverTicketCount = 0 /\ data' = data)

C10_ClosedSendStep ==
    \A h \in Senders :
        /\ (nRecv = 0 /\ hs[h] = "idle") => hs'[h] \notin {"chkT", "chkS"}
        /\ (nRecv = 0 /\ hs[h] = "idle" /\ hs'[h] = "hopClosed")
              => (data' = data /\ waiting' = waiting
                    /\ q' = Submit(q, sctx(h), Callable("hop", h)))
        /\ (last'.op = "try_send" /\ last'.t = h /\ last'.res = "Closed")
              => (data' = data /\ waiting' = waiting /\ q' = q)
        /\ (hs[h] = "hopClosed" /\ hs'[h] = "idle" /\ last'.op = "send")
              => last'.res = "Closed"

C10_ClosedSend == [][C10_ClosedSendStep]_vars

\* C11: the queue is FIFO.  Values are numbered in the order they are pushed;
\* the queue always holds the newest values in push order, and every dequeue
\* (try_receive, a receive that does not suspend, a wake handler) removes the
\* front of the queue and delivers exactly that value.
C11_QueueInPushOrder ==
    /\ Len(data) <= sent
    /\ \A i \in 1..Len(data) : data[i] = sent - Len(data) + i

C11_DequeueStep ==
    Len(data') < Len(data) =>
        /\ data' = Tail(data)
        /\ last'.op \in {"try_receive", "receive", "wake"}
        /\ last'.res \in {"Value", "value"}
        /\ last'.v = Head(data)

C11_Fifo == []C11_QueueInPushOrder /\ [][C11_DequeueStep]_vars

\* The second value pushed was delivered by a wake handler after the first
\* one had been dequeued.
C11_Witness ==
    /\ last.op = "wake" /\ last.res = "value" /\ last.v = 2
    /\ sent = 2 /\ data = <<>>

\* Number of occurrences of v in the sequence sq.
Count(sq, v) == Cardinality({i \in 1..Len(sq) : sq[i] = v})

\* C12: no value is lost or duplicated.  The values pushed so far are
\* exactly the values delivered so far plus the queue contents, each once;
\* and when the executors have drained with a live receive still suspended,
\* every value that was pushed has been delivered.
C12_Conservation ==
    /\ Len(delivered) + Len(data) = sent
    /\ \A v \in 1..sent : Count(delivered, v) + Count(data, v) = 1

C12_AllDeliveredWhenDrained ==
    (QuiescentChan /\ \E r \in RTasks : rs[r] = "parked")
        => (data = <<>> /\ \A v \in 1..sent : Count(delivered, v) = 1)

C12_NoLossNoDuplication == C12_Conservation /\ C12_AllDeliveredWhenDrained

\* Both values pushed were delivered, the executors have drained, the
\* producer is not suspended and the consumer has run to its end.
C12_Witness ==
    /\ QuiescentChan
    /\ sent = MaxSends
    /\ Len(delivered) = MaxSends
    /\ \E r \in RTasks : rs[r] = "done"
    /\ last.op = "send" /\ last.res = "Ok"

\* C13: buffered values stay receivable after the last Sender is gone.  No
\* receive completes or resumes with the close signal and no try_receive
\* returns Closed while the queue is non-empty when the operation inspects
\* it; the close outcome leaves the (empty) queue as it is.
C13_CloseStep ==
    (/\ last'.op \in {"receive", "wake", "try_receive"}
     /\ last'.res \in {"closed", "Closed"})
        => (data = <<>> /\ data' = <<>>)

C13_CloseOnlyWhenDrained == [][C13_CloseStep]_vars

\* The close outcome is reported after every value pushed before the last
\* Sender was destroyed has been dequeued.
C13_Witness ==
    /\ last.res \in {"closed", "Closed"}
    /\ NoSenderLeft
    /\ sent = MaxSends
    /\ data = <<>>

\* C14: the flag is set exactly when one guard is outstanding.  Setting the
\* flag and handing the guard to the acquirer is one step (try_lock, a lock
\* that does not suspend, a wake handler that resumes its waiter); a guard
\* counts as released from the step of unlock_impl that clears the flag.
C14_LockedIffOneGuard ==
    locked <=> Cardinality({t \in MTasks : ms[t] = "holding"}) = 1

\* A guard is outstanding and the flag is set while the previous holder is
\* still inside unlock_impl.
C14_Witness ==
    /\ locked
    /\ \E t \in MTasks : ms[t] = "holding"
    /\ \E t \in MTasks : ms[t] = "clearing"

\* No wake handler is pending and no release is in progress.
QuiescentMutex ==
    /\ \A c \in Ctx : mq[c] = <<>>
    /\ \A t \in MTasks : ms[t] \notin {"clearing", "waking"}

\* C15: mutex progress.  No wake-up is lost: when nothing is in flight, a
\* live task is suspended in lock only while a guard is outstanding.  After
\* a release made while live tasks wait, the mutex is acquired again unless
\* the waiters are all destroyed; and when every holder releases, each
\* suspended lock completes unless its task is destroyed.
C15_NoLostWakeup ==
    (QuiescentMutex /\ \E t \in MTasks : ms[t] = "parked") => locked

C15_Released ==
    /\ \E t \in MTasks : ms[t] = "clearing"
    /\ \E t \in MTasks : ms[t] = "parked"

C15_Reacquired ==
    \/ \E t \in MTasks : ms[t] = "holding"
    \/ \A t \in MTasks : ms[t] # "parked"

C15_Progress ==
    /\ []C15_NoLostWakeup
    /\ C15_Released ~> C15_Reacquired
    /\ \A t \in MTasks :
          (ms[t] = "parked") ~> (ms[t] \in {"holding", "dropped"})

\* A task that was suspended in lock while another held the guard has been
\* resumed with the guard by a wake handler, and a third task is still
\* suspended.
C15_Witness ==
    /\ mlast.op = "mwake" /\ mlast.res = "guard"
    /\ ms[mlast.t] = "holding"
    /\ \E t \in MTasks : ms[t] = "parked"
    /\ \E t \in MTasks : ms[t] = "released"

\* C16: try_lock never waits.  On an unlocked mutex it sets the flag and
\* returns a populated guard; on a locked mutex it returns an empty result
\* and leaves the flag, the waiter list and the executors as they are.
C16_TryLockStep ==
    \A t \in MTasks :
        (mlast'.op = "try_lock" /\ mlast'.t = t) =>
            /\ ms[t] \in {"ready", "released"}
            /\ waiters' = waiters /\ mq' = mq /\ mstolen' = mstolen
            /\ IF ~locked
               THEN /\ locked'
                    /\ mlast'.res = "guard"
                    /\ ms' = [ms EXCEPT ![t] = "holding"]
               ELSE /\ locked' = locked
                    /\ mlast'.res = "nullopt"
                    /\ ms' = ms

C16_TryLockNeverWaits == [][C16_TryLockStep]_vars

\* try_lock returned an empty result while another task held the guard and a
\* third one was suspended in lock.
C16_Witness ==
    /\ mlast.op = "try_lock" /\ mlast.res = "nullopt"
    /\ ms[mlast.t] \in {"ready", "released"}
    /\ locked
    /\ waiters # <<>>

\* C17: co_await lock(exec) suspends exactly when the flag is set as
\* await_suspend takes the internal lock.  On an unlocked mutex it sets the
\* flag and continues with the guard, adds no waiter and submits nothing; on
\* a locked mutex it appends exactly one waiter record, its own, and suspends.
C17_LockStep ==
    \A t \in MTasks :
        (mlast'.op = "lock" /\ mlast'.t = t) =>
            /\ ms[t] \in {"ready", "released"}
            /\ mq' = mq /\ mstolen' = mstolen
            /\ (ms'[t] = "parked") <=> locked
            /\ IF ~locked
               THEN /\ locked'
                    /\ waiters' = waiters
                    /\ mlast'.res = "guard"
                    /\ ms' = [ms EXCEPT ![t] = "holding"]
               ELSE /\ locked' = locked
                    /\ waiters' = Append(waiters, t)
                    /\ mlast'.res = "parked"
                    /\ ms' = [ms EXCEPT ![t] = "parked"]

C17_LockSuspendsIffLocked == [][C17_LockStep]_vars

\* A second task has suspended in lock behind an earlier waiter.
C17_Witness ==
    /\ mlast.op = "lock" /\ mlast.res = "parked"
    /\ Len(waiters) = 2
    /\ waiters[2] = mlast.t
    /\ ms[mlast.t] = "parked"

\* C18: co_await receive(exec) suspends exactly when, as await_suspend takes
\* the state lock, the queue is empty and a Sender is live.  With a non-empty
\* queue it completes at once with the oldest value and removes it; with an
\* empty queue and no live Sender it completes at once with the close
\* signal; in both cases no waiter is registered; nothing is ever submitted.
C18_ReceiveStep ==
    \A r \in RTasks :
        (last'.op = "receive" /\ last'.t = r) =>
            /\ q' = q
            /\ IF data # <<>>
               THEN /\ last'.res = "value" /\ last'.v = Head(data)
                    /\ data' = Tail(data)
                    /\ waiting' = waiting /\ rs' = rs
               ELSE IF SomeSenderLive
               THEN /\ last'.res = "parked"
                    /\ rs' = [rs EXCEPT ![r] = "parked"]
                    /\ waiting' = Append(waiting, r)
                    /\ data' = data
               ELSE /\ last'.res = "closed"
                    /\ waiting' = waiting /\ rs' = rs /\ data' = data

C18_ReceiveSuspendsIffEmptyAndOpen == [][C18_ReceiveStep]_vars

\* C19: a wake handler whose waiter is live does exactly one of three
\* things.  With a non-empty queue it pops the oldest value and resumes the
\* waiter with it; with an empty queue and a live Sender it puts the waiter
\* back on the list without resuming it; with an empty queue and no live
\* Sender it resumes the waiter with the close signal.
C19_WakeStep ==
    \A c \in Ctx :
        (Runs(c) /\ Head(q[c]).k = "wake" /\ rs[Head(q[c]).t] = "parked") =>
            LET r == Head(q[c]).t IN
            IF data # <<>>
            THEN /\ last' = Ev("wake", r, "value", Head(data))
                 /\ data' = Tail(data)
                 /\ rs' = [rs EXCEPT ![r] = "ready"]
                 /\ waiting' = waiting
            ELSE IF SomeSenderLive
            THEN /\ last' = Ev("wake", r, "requeued", 0)
                 /\ waiting' = Append(waiting, r)
                 /\ rs' = rs /\ data' = data
            ELSE /\ last' = Ev("wake", r, "closed", None)
                 /\ rs' = [rs EXCEPT ![r] = "ready"]
                 /\ waiting' = waiting /\ data' = data

C19_WakeDoesOneOfThree == [][C19_WakeStep]_vars

\* C20: the channel is closed to senders, that is, the sender ticket no
\* longer locks, exactly when no Sender handle (the original or a copy) is
\* live.
C20_ClosedIffNoSenderLive ==
    (~SenderTicketLocks) <=> (~SomeSenderLive)

\* The callables queued for task y on executor c.
YieldPending(y, c) == {i \in 1..Len(yq[c]) : yq[c][i].t = y}

\* C21: co_await yield(exec) always suspends and submits exactly one
\* callable, to exec alone; while the task is suspended that callable is the
\* only one queued for it, a task that runs has none queued, and the task
\* resumes in the very step in which an executor runs its callable: a step
\* that runs anything else leaves it suspended.
C21_OneCallablePerYield ==
    \A y \in YTasks :
        /\ ys[y] = "suspended" =>
              \E c \in Ctx :
                  /\ Cardinality(YieldPending(y, c)) = 1
                  /\ \A d \in Ctx \ {c} : YieldPending(y, d) = {}
        /\ ys[y] = "ready" => \A c \in Ctx : YieldPending(y, c) = {}

C21_YieldStep ==
    \A y \in YTasks :
        /\ (ycount'[y] # ycount[y]) =>
              /\ ys[y] = "ready" /\ ys'[y] = "suspended"
              /\ \E c \in Ctx :
                    /\ Len(yq'[c]) = Len(yq[c]) + 1
                    /\ yq'[c][Len(yq'[c])].t = y
                    /\ \A d \in Ctx \ {c} : yq'[d] = yq[d]
        /\ (ys[y] = "suspended" /\ ys'[y] = "ready") =>
              \E c \in Ctx :
                  yq[c] # <<>> /\ Head(yq[c]).t = y /\ yq'[c] = Tail(yq[c])
        /\ (ys[y] = "suspended"
              /\ \E c \in Ctx :
                    yq[c] # <<>> /\ Head(yq[c]).t = y /\ yq'[c] = Tail(yq[c]))
              => ys'[y] = "ready"

C21_YieldResumesOnce == []C21_OneCallablePerYield /\ [][C21_YieldStep]_vars

\* One task has been resumed by the executor it yielded to while the other
\* one, which yielded to the other executor, is still suspended.
C21_Witness ==
    \E y, z \in YTasks :
        /\ ys[y] = "ready" /\ ycount[y] = 1
        /\ ys[z] = "suspended"
        /\ \E c \in Ctx : yq[c] = <<>>

\* The live hop callables of Sender h queued on executor c.
LiveHops(h, c) ==
    {i \in 1..Len(q[c]) : q[c][i].k = "hop" /\ q[c][i].t = h /\ q[c][i].alive}

\* C22: a successful send never waits for a receiver.  A send that passed
\* the ticket test can always push, and the push makes the queue one value
\* longer; once its wake loop is over it can always hand its hop to exec;
\* while it is suspended exactly one live hop is queued, on exec, and the
\* task resumes with success in the step in which exec runs that hop.  With
\* the immediate executor the task is resumed inside await_suspend and never
\* stays suspended.
C22_SendCanProceed ==
    \A h \in Senders :
        /\ hs[h] = "chkS" => ENABLED PushAndSteal(h)
        /\ (hs[h] = "wakeS" /\ ~Hosting(h)) =>
              ENABLED (WakeupOne(h) \/ SendSuspend(h))
        /\ hs[h] = "hopOk" =>
              /\ ~IsImmediate(sctx(h))
              /\ Cardinality(LiveHops(h, sctx(h))) = 1
              /\ \A c \in Ctx \ {sctx(h)} : LiveHops(h, c) = {}

C22_SendStep ==
    \A h \in Senders :
        /\ (hs[h] = "chkS" /\ hs'[h] # "chkS") =>
              /\ hs'[h] = "wakeS"
              /\ data' = Append(data, sent + 1)
              /\ Len(data') = Len(data) + 1
        /\ (hs[h] = "wakeS" /\ hs'[h] # "wakeS") =>
              IF IsImmediate(sctx(h))
              THEN /\ hs'[h] = "idle"
                   /\ last' = Ev("send", h, "Ok", 0)
                   /\ q' = q
              ELSE /\ hs'[h] = "hopOk"
                   /\ q' = Submit(q, sctx(h), Callable("hop", h))
        /\ (hs[h] = "hopOk" /\ hs'[h] = "idle" /\ last'.op = "send") =>
              /\ last' = Ev("send", h, "Ok", 0)
              /\ Runs(sctx(h))
              /\ Head(q[sctx(h)]) = Callable("hop", h)
              /\ data' = data

C22_SendNeverWaits == []C22_SendCanProceed /\ [][C22_SendStep]_vars

\* A send through the immediate executor has completed with nobody parked:
\* the value is in the queue and the task was resumed inside the call.
C22_Witness ==
    /\ imm
    /\ \E h \in Senders : IsImmediate(sctx(h)) /\ last = Ev("send", h, "Ok", 0)
    /\ data # <<>>
    /\ waiting = <<>>
    /\ \A r \in RTasks : rs[r] = "ready"
    /\ \A c \in Ctx : q[c] = <<>>

\* C23: available() is the current queue depth: the number of values
\* enqueued so far minus the number dequeued by receive, wake handlers and
\* try_receive.
C23_AvailableIsDepth ==
    available = sent - Len(delivered)

\* Two values were enqueued and one of them has been dequeued.
C23_Witness ==
    /\ sent = 2
    /\ Len(delivered) = 1
    /\ available = 1
    /\ nRecv >= 1

\* C24: guard release is idempotent.  unlock() on a guard that was already
\* released, or its destruction, never enters the release: the flag, the
\* waiter list, the executors and every other task stay as they are, also
\* when another task has acquired the mutex in the meantime.
C24_ReleasedGuardStep ==
    \A t \in MTasks :
        /\ ms[t] = "released" =>
              ms'[t] \in {"released", "ready", "holding", "parked"}
        /\ (mlast'.op = "unlock" /\ mlast'.t = t
              /\ mlast'.res \in {"noop", "noop_dtor"}) =>
              /\ ms[t] = "released"
              /\ locked' = locked /\ waiters' = waiters
              /\ mq' = mq /\ mstolen' = mstolen
              /\ \A u \in MTasks \ {t} : ms'[u] = ms[u]

C24_UnlockIdempotent == [][C24_ReleasedGuardStep]_vars

\* unlock() was called on a released guard while another task holds the
\* mutex and a third one waits: the flag is still set.
C24_Witness ==
    /\ mlast.op = "unlock" /\ mlast.res = "noop"
    /\ ms[mlast.t] = "released"
    /\ locked
    /\ \E u \in MTasks : ms[u] = "holding"
    /\ waiters # <<>>

\* C25: the guarded value is written only through the guard of the current
\* holder and persists across releases: a step that changes it is a store by
\* the one task that holds the mutex, every read through a guard yields the
\* latest value stored (whoever stored it), and once all tasks are done the
\* mutex is free, so that try_lock succeeds, and it holds the latest value
\* stored.
C25_ValueStep ==
    /\ value' # value =>
          \E t \in MTasks :
              /\ ms[t] = "holding" /\ ms'[t] = "holding"
              /\ \A u \in MTasks \ {t} : ms[u] # "holding"
              /\ mlast' = Ev("write", t, "-", value')
    /\ mlast'.op = "read" => mlast'.v = written.v
    /\ (mlast'.op = "try_lock" /\ mlast'.res = "guard") => value' = written.v

C25_ValueIsLastWritten == value = written.v

C25_FreeWhenAllDone ==
    (\A t \in MTasks : ms[t] \in {"ready", "released", "dropped"}) =>
        MutexFree /\ value = written.v

C25_ValuePersists ==
    /\ []C25_ValueIsLastWritten
    /\ []C25_FreeWhenAllDone
    /\ [][C25_ValueStep]_vars

\* A holder reads the value another task stored before it released.
C25_Witness ==
    /\ mlast.op = "read"
    /\ written.t \notin {0, mlast.t}
    /\ mlast.v = written.v
    /\ ms[written.t] \in {"ready", "released"}

\* The positions of callable id in the run log.
RanAt(id) == {i \in 1..Len(ran) : ran[i].id = id}

\* The callables submitted to executors of the given kind.
SubmittedTo(kind) == {id \in 1..Len(submitted) : submitted[id] = kind}

\* C26: a callable submitted to the immediate executor runs exactly once,
\* synchronously, before execute returns; callables submitted one after
\* another run in submission order and none runs before it is submitted.
C26_RanOnceInOrder ==
    /\ \A id \in SubmittedTo("immediate") : Cardinality(RanAt(id)) = 1
    /\ \A i \in 1..Len(ran) : ran[i].id \in 1..Len(submitted)
    /\ \A i, j \in 1..Len(ran) :
          (i < j /\ {ran[i].id, ran[j].id} \subseteq SubmittedTo("immediate"))
              => ran[i].id < ran[j].id

C26_ExecuteStep ==
    (Len(submitted') > Len(submitted) /\ submitted'[Len(submitted')] = "immediate") =>
        /\ ran' = Append(ran, [id |-> Len(submitted'), by |-> "immediate"])
        /\ hostq' = hostq

C26_ImmediateRunsSynchronously == []C26_RanOnceInOrder /\ [][C26_ExecuteStep]_vars

\* Two callables went through the immediate executor while a callable
\* submitted before them still waits in the deferred host.
C26_Witness ==
    /\ Cardinality(SubmittedTo("immediate")) >= 2
    /\ hostq # <<>>
    /\ \E id \in SubmittedTo("immediate") : Head(hostq) < id

\* The number of times callable id sits in the deferred host.
HeldByHost(id) == Cardinality({i \in 1..Len(hostq) : hostq[i] = id})

\* C27: an adapted executor forwards each submission to its host function
\* exactly once and never runs the callable itself: with a deferred host a
\* submitted callable has not run until the host is driven, and it is then
\* run exactly once; nothing is duplicated, nothing is dropped.
C27_ForwardedOnce ==
    /\ \A id \in SubmittedTo("adapt_deferred") :
          Cardinality(RanAt(id)) + HeldByHost(id) = 1
    /\ \A id \in SubmittedTo("adapt_inline") : Cardinality(RanAt(id)) = 1
    /\ \A i \in 1..Len(ran) :
          Wraps(submitted[ran[i].id]) # "immediate" => ran[i].by = "host"
    /\ hostq = <<>> =>
          \A id \in SubmittedTo("adapt_deferred") : Cardinality(RanAt(id)) = 1

C27_ForwardStep ==
    (Len(submitted') > Len(submitted)
          /\ submitted'[Len(submitted')] = "adapt_deferred") =>
        /\ ran' = ran
        /\ hostq' = Append(hostq, Len(submitted'))

C27_AdaptedForwardsOnce == []C27_ForwardedOnce /\ [][C27_ForwardStep]_vars

\* Two callables were handed to the deferred host, neither ran before the
\* host was driven, and the host has now run both.
C27_Witness ==
    /\ Cardinality(SubmittedTo("adapt_deferred")) >= 2
    /\ hostq = <<>>
    /\ Len(ran) >= 2
    /\ \A i \in 1..Len(ran) : submitted[ran[i].id] = "adapt_deferred"

\* What the thread of Sender h can do next while it is in a wake loop: an
\* iteration, the end of the loop, or a step of the coroutine that a handler
\* run inline by the loop has resumed.
WakeLoopStep(h) ==
    \/ WakeupOne(h) \/ TrySendEnd(h) \/ SendSuspend(h) \/ SenderDtorMembers(h)
    \/ \E r \in RTasks :
          host[r] = h /\ (Receive(r) \/ Finish(r) \/ HandlerReturn(r))

\* C28: nothing is submitted to an executor and nothing is resumed while
\* the submitting thread owns the channel state lock or the mutex internal
\* lock; so with the immediate executor the wake loops of send, try_send,
\* the last Sender's destructor and the guard release can always take their
\* next step, although the handler they run inline takes the same lock, and
\* they end because every iteration shortens the list they walk through.
C28_LocksFree == stateLock = NoOwner /\ mutLock = NoOwner

C28_NoSelfDeadlock ==
    /\ \A h \in Senders :
          hs[h] \in {"wakeT", "wakeS", "dwake"} => ENABLED WakeLoopStep(h)
    /\ \A t \in MTasks :
          ms[t] \in {"clearing", "waking"} =>
              ENABLED (UnlockSteal(t) \/ WakeupWaiter(t) \/ UnlockEnd(t))

C28_WakeLoopStep ==
    /\ (q' # q \/ mq' # mq \/ frame' # frame \/ last'.op = "wake"
          \/ mlast'.op = "mwake") =>
          stateLock = NoOwner /\ mutLock = NoOwner
    /\ \A h \in Senders :
          (hs[h] \in {"wakeT", "wakeS", "dwake"} /\ hs'[h] = hs[h]) =>
              Len(stolen'[h]) <= Len(stolen[h])
    /\ \A t \in MTasks :
          (ms[t] = "waking" /\ ms'[t] = "waking") =>
              Len(mstolen'[t]) <= Len(mstolen[t])

C28_WakeOutsideLocks ==
    /\ []C28_LocksFree
    /\ []C28_NoSelfDeadlock
    /\ [][C28_WakeLoopStep]_vars

\* The destructor of the last Sender runs, inside its wake loop, the handler
\* of a receiver parked on the immediate executor, which took the state lock
\* and found the channel closed.
C28_Witness ==
    \E h \in Senders, r \in RTasks :
        /\ hs[h] = "dwake"
        /\ host[r] = h
        /\ frame[r] # "none"
        /\ last = Ev("wake", r, "closed", None)

\* C29: whenever the channel state lock is free, a non-empty waiter list
\* implies an empty queue: a waiter is appended, by receive or by a wake
\* handler that puts it back, only when the queue is empty, and every
\* enqueue empties the waiter list in the same critical section.
C29_WaitersImplyEmptyQueue == (stateLock = NoOwner /\ waiting # <<>>) => data = <<>>

C29_ListStep ==
    /\ Len(waiting') > Len(waiting) =>
          /\ data = <<>> /\ data' = <<>>
          /\ \E r \in RTasks :
                /\ waiting' = Append(waiting, r)
                /\ last' \in {Ev("receive", r, "parked", None),
                              Ev("wake", r, "requeued", 0)}
    /\ Len(data') > Len(data) => waiting' = <<>>

C29_WaitersOnlyOnEmptyQueue ==
    []C29_WaitersImplyEmptyQueue /\ [][C29_ListStep]_vars

\* A wake handler found the queue empty, another receiver having taken the
\* value, and put its waiter back while a second waiter is parked.
C29_Witness ==
    /\ last.op = "wake" /\ last.res = "requeued"
    /\ Len(waiting) = 2
    /\ data = <<>>
    /\ sent > 0

\* The number of Sender handles that exist, a handle whose destructor is
\* running included until its members are gone.
LiveSenderHandles == Cardinality({h \in Senders : hs[h] \in HoldsSenderTicket})

\* C30: the strong count of the sender ticket is the number of live Sender
\* handles wherever it is observed: ~Sender takes the close branch exactly
\* when its handle is the only one, and receive, try_receive and the wake
\* handler report the channel closed exactly when no handle is left, also
\* while a wake handler is resuming a receiver.
C30_ObservedStep ==
    /\ \A h \in Senders :
          (hs[h] = "idle" /\ hs'[h] \in {"dwake", "dtor"}) =>
              (hs'[h] = "dwake" <=> LiveSenderHandles = 1)
    /\ last'.op = "receive" =>
          /\ last'.res = "closed" => LiveSenderHandles = 0
          /\ last'.res = "parked" => LiveSenderHandles > 0
    /\ last'.op = "try_receive" =>
          /\ last'.res = "Closed" => LiveSenderHandles = 0
          /\ last'.res = "Empty" => LiveSenderHandles > 0
    /\ last'.op = "wake" =>
          /\ last'.res = "closed" => LiveSenderHandles = 0
          /\ last'.res = "requeued" => LiveSenderHandles > 0

C30_CountIsHandleCount == [][C30_ObservedStep]_vars

\* C31: when the remaining Sender handles are destroyed concurrently,
\* exactly one destructor takes the last-holder branch: a destructor that
\* takes it is the only handle left, and a destructor that skips it, no wake
\* handler holding the ticket, leaves a handle whose destructor has not
\* skipped it too.
C31_DestructorStep ==
    \A h \in Senders :
        /\ (hs[h] = "idle" /\ hs'[h] = "dwake") =>
              \A h2 \in Senders \ {h} : hs[h2] \notin HoldsSenderTicket
        /\ (hs[h] = "idle" /\ hs'[h] = "dtor"
              /\ \A r \in RTasks : frame[r] # "tick") =>
              \E h2 \in Senders \ {h} : hs[h2] \in HoldsSenderTicket \ {"dtor"}

C31_OneDestructorCloses == [][C31_DestructorStep]_vars

\* The number of occurrences of v in the sequences f[x], x in S.
RECURSIVE CountAll(_, _, _)
CountAll(f, S, v) ==
    IF S = {} THEN 0
    ELSE LET x == CHOOSE y \in S : TRUE
         IN Count(f[x], v) + CountAll(f, S \ {x}, v)

\* Where the waiter of receive task r is: in the waiter list, in the list a
\* wake loop took and has not walked through yet, or named by a wake
\* callable that an executor has not run yet.
ChanListed(r) == Count(waiting, r)
ChanDrained(r) == CountAll(stolen, Senders, r)
ChanInFlight(r) == CountAll(q, Ctx, Callable("wake", r))

\* The same for the waiter of mutex task t.
MutexListed(t) == Count(waiters, t)
MutexDrained(t) == CountAll(mstolen, MTasks, t)
MutexInFlight(t) == CountAll(mq, Ctx, Callable("mwake", t))

\* C32, as stated: every suspended waiter with a live task is either once
\* in the waiter list or the target of exactly one wake callable in flight.
C32_ListedOrInFlight ==
    /\ \A r \in RTasks :
          rs[r] = "parked" => ChanListed(r) + ChanInFlight(r) = 1
    /\ \A t \in MTasks :
          ms[t] = "parked" => MutexListed(t) + MutexInFlight(t) = 1

\* C32, amended: every suspended waiter with a live task is in exactly one
\* of three places: once in the waiter list, once in the list a wake loop in
\* progress has taken, or the target of exactly one wake callable in flight,
\* on its own executor; a task that is not suspended is in none of them, so
\* a suspension is resumed at most once.
C32_OnePlace ==
    /\ \A r \in RTasks :
          /\ rs[r] = "parked" =>
                ChanListed(r) + ChanDrained(r) + ChanInFlight(r) = 1
          /\ rs[r] \in {"ready", "done"} =>
                ChanListed(r) + ChanDrained(r) + ChanInFlight(r) = 0
          /\ \A c \in Ctx \ {rctx(r)} :
                \A i \in 1..Len(q[c]) : q[c][i] # Callable("wake", r)
    /\ \A t \in MTasks :
          /\ ms[t] = "parked" =>
                MutexListed(t) + MutexDrained(t) + MutexInFlight(t) = 1
          /\ ms[t] \notin {"parked", "dropped"} =>
                MutexListed(t) + MutexDrained(t) + MutexInFlight(t) = 0

C32_ResumeStep ==
    /\ \A r \in RTasks :
          (rs[r] = "parked" /\ rs'[r] = "ready") =>
              /\ ChanListed(r) = 0
              /\ last'.op = "wake" /\ last'.t = r
    /\ \A t \in MTasks :
          (ms[t] = "parked" /\ ms'[t] = "holding") =>
              /\ MutexListed(t) = 0
              /\ mlast' = Ev("mwake", t, "guard", 0)

C32_WaiterInOnePlace == []C32_OnePlace /\ [][C32_ResumeStep]_vars

\* One receive is back in the waiter list, put there by its wake handler,
\* while the other suspended receive is the target of a callable in flight.
C32_Witness ==
    /\ last.op = "wake" /\ last.res = "requeued"
    /\ ChanListed(last.t) = 1
    /\ \E r \in RTasks \ {last.t} : rs[r] = "parked" /\ ChanInFlight(r) = 1

\* A release has cleared the flag and the waiters parked before it are
\* still in the list.
ReleaseHalfDone == \E t \in MTasks : ms[t] = "clearing" /\ waiters # <<>>

\* C33: a guard release clears the flag and takes the whole waiter list in
\* one atomic step: no try_lock, lock or wake handler acts on a state in
\* which the flag is already cleared by a release whose waiters are still
\* in the list.
C33_ObserverStep ==
    mlast'.op \in {"try_lock", "lock", "mwake"} => ~ReleaseHalfDone

C33_ReleaseIsAtomic == [][C33_ObserverStep]_vars

\* C34: a parked waiter is resumed only from inside a callable run by the
\* executor passed to its own receive(exec) / lock(exec), and inline by the
\* thread that sends, releases or destroys the last Sender only when that
\* executor is the immediate one; every iteration of a wake loop submits
\* exactly one handler for a waiter that is not stale, to that waiter's
\* executor, and none for a stale one.
C34_ResumeStep ==
    /\ \A r \in RTasks :
          (rs[r] = "parked" /\ rs'[r] = "ready") =>
              IF IsImmediate(rctx(r))
              THEN /\ host'[r] \in Senders
                   /\ stolen[host'[r]] # <<>>
                   /\ Head(stolen[host'[r]]) = r
                   /\ q' = q
              ELSE /\ host'[r] = NoHost
                   /\ Runs(rctx(r))
                   /\ Head(q[rctx(r)]) = Callable("wake", r)
                   /\ stolen' = stolen
    /\ \A t \in MTasks :
          (ms[t] = "parked" /\ ms'[t] = "holding") =>
              IF IsImmediate(mctx(t))
              THEN /\ mq' = mq
                   /\ \E u \in MTasks :
                         /\ ms[u] = "waking"
                         /\ mstolen[u] # <<>> /\ Head(mstolen[u]) = t
              ELSE /\ mq[mctx(t)] # <<>>
                   /\ Head(mq[mctx(t)]) = Callable("mwake", t)
                   /\ mq' = [mq EXCEPT ![mctx(t)] = Tail(@)]
                   /\ mstolen' = mstolen

C34_DrainStep ==
    /\ \A h \in Senders :
          (stolen[h] # <<>> /\ stolen'[h] = Tail(stolen[h])) =>
              LET r == Head(stolen[h]) IN
              IF rs[r] = "parked" /\ ~IsImmediate(rctx(r))
              THEN q' = [q EXCEPT ![rctx(r)] = Append(@, Callable("wake", r))]
              ELSE q' = q
    /\ \A u \in MTasks :
          (mstolen[u] # <<>> /\ mstolen'[u] = Tail(mstolen[u])) =>
              LET t == Head(mstolen[u]) IN
              IF ms[t] = "parked" /\ ~IsImmediate(mctx(t))
              THEN mq' = [mq EXCEPT ![mctx(t)] = Append(@, Callable("mwake", t))]
              ELSE mq' = mq

C34_ResumedOnOwnExecutor == [][C34_ResumeStep /\ C34_DrainStep]_vars

\* The receive that waits on the deferred executor was resumed by that
\* executor, and the receive that waits on the immediate executor is being
\* resumed inside the wake loop of a Sender.
C34_Witness ==
    \E r, r2 \in RTasks :
        /\ ~IsImmediate(rctx(r)) /\ frame[r] # "none" /\ host[r] = NoHost
        /\ IsImmediate(rctx(r2)) /\ frame[r2] # "none" /\ host[r2] \in Senders

\* C35: a submission through the any_executor that wraps executor X, or
\* through a copy of it, is exactly one submission to X: the step does what
\* execute on X does, and the callable runs when and as often as it would
\* there.
C35_ErasedStep ==
    (Len(submitted') > Len(submitted) /\ submitted'[Len(submitted')] \in AnyKinds) =>
        LET id == Len(submitted')
            x == Wraps(submitted'[id])
        IN IF x = "immediate"
           THEN ran' = Append(ran, [id |-> id, by |-> "immediate"]) /\ hostq' = hostq
           ELSE IF x = "adapt_inline"
           THEN ran' = Append(ran, [id |-> id, by |-> "host"]) /\ hostq' = hostq
           ELSE hostq' = Append(hostq, id) /\ ran' = ran

C35_ErasedOnce ==
    \A id \in 1..Len(submitted) :
        submitted[id] \in AnyKinds =>
            /\ Cardinality(RanAt(id)) + HeldByHost(id) = 1
            /\ Wraps(submitted[id]) # "adapt_deferred" => Cardinality(RanAt(id)) = 1

C35_ErasedIsDirect == []C35_ErasedOnce /\ [][C35_ErasedStep]_vars

\* A callable submitted through a copy of the any_executor that wraps the
\* deferred executor has run, after one submitted through the any_executor
\* that wraps the immediate executor.
C35_Witness ==
    \E i, j \in 1..Len(ran) :
        /\ i < j
        /\ submitted[ran[i].id] = "any_immediate"
        /\ submitted[ran[j].id] = "anycopy_adapt_deferred"
        /\ ran[i].id > ran[j].id

\* C36: moving a guard transfers ownership without unlocking.  After a
\* move the guard moved from is empty, and its destruction or unlock()
\* leaves the mutex alone: the flag stays set as long as the task holds the
\* populated guard.  Move-assigning onto the populated guard first runs
\* its release to the end, the flag cleared and the waiters it took handed
\* to their executors, and then takes over what the source held.
C36_LockedWhileHeld ==
    /\ locked <=> Cardinality({t \in MTasks : ms[t] = "holding"}) = 1
    /\ \A t \in MTasks :
          Assigning(t) => ms[t] \in {"clearing", "waking", "released"}

C36_MoveStep ==
    \A t \in MTasks :
        /\ (mlast'.t = t /\ mlast'.op \in {"move_construct", "release_source"}) =>
              /\ locked' = locked /\ ms' = ms
              /\ waiters' = waiters /\ mq' = mq /\ mstolen' = mstolen
              /\ mlast'.op = "move_construct" => (locked /\ spare'[t] = "empty")
        /\ (ms[t] = "holding" /\ Assigning(t)') =>
              /\ ~locked' /\ ms'[t] = "clearing"
        /\ (Assigning(t) /\ ~Assigning(t)') =>
              /\ ms[t] = "released" /\ mstolen[t] = <<>>
              /\ spare'[t] = IF spare[t] = "assignOther" THEN "other" ELSE "empty"
              /\ locked' = locked /\ ms' = ms

C36_MoveKeepsOwnership == []C36_LockedWhileHeld /\ [][C36_MoveStep]_vars

\* The guard moved from was destroyed while a task waits: the mutex is
\* still locked, held through the guard moved to, and nobody was woken.
C36_Witness ==
    /\ mlast.op = "release_source" /\ mlast.res = "noop_dtor"
    /\ ms[mlast.t] = "holding" /\ spare[mlast.t] = "none"
    /\ locked
    /\ waiters # <<>>
    /\ \A c \in Ctx : mq[c] = <<>>

\* C37: whenever no Receiver handle is live, no receive of a live task is
\* parked in the waiter list or has a wake handler in flight.
C37_NoWaiterWithoutReceiver ==
    nRecv = 0 =>
        \A r \in RTasks :
            ~(rs[r] = "parked" /\ (ChanListed(r) > 0 \/ ChanInFlight(r) > 0))

\* C38: whenever the number of live Sender handles drops to zero, also by
\* assignment to the last Sender from a Sender of another channel, the
\* parked receivers are drained and woken as on destruction of the last
\* Sender: the step takes the whole waiter list for its wake loop.
C38_LastSenderGoneStep ==
    \A h \in Senders :
        (last' = Ev("assign", h, "-", 0)
              /\ LiveSenderHandles' = 0
              /\ \A r \in RTasks : frame[r] # "tick") =>
            /\ waiting' = <<>>
            /\ stolen'[h] = waiting

C38_AssignmentCloses == [][C38_LastSenderGoneStep]_vars
====
